---------------------------- MODULE Spec2Model ----------------------------
(***************************************************************************)
(* A model of the datamanager package: the DataManager registry            *)
(* (datamanager/datamanager.py) and its SaveDaemon thread                  *)
(* (datamanager/save_daemon.py).                                           *)
(*                                                                         *)
(* Python strings are sequences of one-character strings, so that          *)
(* concatenation, str.replace and int() are computed and not assumed.      *)
(***************************************************************************)
EXTENDS Integers, Sequences, FiniteSets, TLC

\* ------------------------------------------------------------------------
\* Bounds of the model
\* ------------------------------------------------------------------------

\* most entries the registry holds in a run
MaxEntries == 2

\* most callbacks the daemon's list holds (two are the registry's own)
MaxFuncs == 3

\* most rounds the daemon starts in a run
MaxRounds == 2

\* ------------------------------------------------------------------------
\* Strings
\* ------------------------------------------------------------------------

DigitChars == <<"0", "1", "2", "3", "4", "5", "6", "7", "8", "9">>

IsDigit(c) == \E i \in 1..10 : DigitChars[i] = c

DigitVal(c) == (CHOOSE i \in 1..10 : DigitChars[i] = c) - 1

\* str(n) for n >= 0: the decimal digits, no leading zero
RECURSIVE str(_)
str(n) == IF n < 10 THEN <<DigitChars[n + 1]>>
          ELSE str(n \div 10) \o <<DigitChars[(n % 10) + 1]>>

\* the value of a string of decimal digits, given the value read so far
RECURSIVE DigitsVal(_, _)
DigitsVal(s, acc) == IF s = <<>> THEN acc
                     ELSE DigitsVal(Tail(s), 10 * acc + DigitVal(Head(s)))

IsPrefix(p, s) == Len(p) <= Len(s) /\ SubSeq(s, 1, Len(p)) = p

\* s.replace(old, ''): every non-overlapping occurrence of old, found left
\* to right, is removed (old is not empty)
RECURSIVE Replace(_, _)
Replace(s, old) ==
    IF Len(s) < Len(old) THEN s
    ELSE IF IsPrefix(old, s)
         THEN Replace(SubSeq(s, Len(old) + 1, Len(s)), old)
         ELSE <<Head(s)>> \o Replace(Tail(s), old)

\* ------------------------------------------------------------------------
\* Scalars: a Python int or a Python str, told apart by a tag
\* ------------------------------------------------------------------------

IntV(n) == <<"int", str(n)>>

StrV(s) == <<"str", s>>

IsInt(x) == x[1] = "int"

\* does int(x) succeed (x an int, or a str of decimal digits)
CanInt(x) == IsInt(x) \/ (x[2] # <<>> /\ \A i \in 1..Len(x[2]) : IsDigit(x[2][i]))

\* the body of _numericize's loop: var = int(i) when that parses, else i
TryInt(x) == IF IsInt(x) THEN x
             ELSE IF CanInt(x) THEN IntV(DigitsVal(x[2], 0))
             ELSE x

\* a _numericize that converts nothing
numericize_nothing(loaded) == loaded

\* _numericize(loaded_data), the iterable given as a sequence
numericize(loaded) == [i \in 1..Len(loaded) |-> TryInt(loaded[i])]

\* ------------------------------------------------------------------------
\* Values: set, list or dict; in memory or a disk-backed container
\* ------------------------------------------------------------------------

NoPairs == <<>>

\* a value of no kind: None, or no file; dir tells whether the directory of
\* a disk-backed container is there
NoneV == [kind |-> "none", s |-> {}, l |-> <<>>, d |-> NoPairs,
          cache |-> FALSE, fault |-> FALSE, dir |-> FALSE]

SetV(S) == [NoneV EXCEPT !.kind = "set", !.s = S]

ListV(l) == [NoneV EXCEPT !.kind = "list", !.l = l]

\* a dict is its <<key, value>> pairs in insertion order, keys distinct
DictV(d) == [NoneV EXCEPT !.kind = "dict", !.d = d]

\* a class (set, list, dict) passed where an object is expected
TypeV == [NoneV EXCEPT !.kind = "type"]

Range(f) == {f[i] : i \in DOMAIN f}

\* a set in a fixed, arbitrary iteration order
RECURSIVE SetToSeq(_)
SetToSeq(S) == IF S = {} THEN <<>>
               ELSE LET x == CHOOSE y \in S : TRUE
                    IN <<x>> \o SetToSeq(S \ {x})

Keys(d) == [i \in 1..Len(d) |-> d[i][1]]

\* iter(v): the elements of a set or list, the keys of a dict
Items(v) == CASE v.kind = "set" -> SetToSeq(v.s)
              [] v.kind = "list" -> v.l
              [] v.kind = "dict" -> Keys(v.d)
              [] OTHER -> <<>>

\* len(v)
Size(v) == CASE v.kind = "set" -> Cardinality(v.s)
             [] v.kind = "list" -> Len(v.l)
             [] v.kind = "dict" -> Len(v.d)
             [] OTHER -> 0

\* bool(v): None and empty collections are false, a class is true
Truthy(v) == v.kind = "type" \/ Size(v) > 0

HasPairKey(d, k) == \E i \in 1..Len(d) : d[i][1] = k

PairValue(d, k) == d[CHOOSE i \in 1..Len(d) : d[i][1] = k][2]

\* d[k] = v on a dict: an existing key keeps its place
SetPair(d, k, v) ==
    IF HasPairKey(d, k)
    THEN [i \in 1..Len(d) |-> IF d[i][1] = k THEN <<k, v>> ELSE d[i]]
    ELSE Append(d, <<k, v>>)

\* dict.update(new), new a dict's pairs
RECURSIVE UpdatePairs(_, _)
UpdatePairs(d, new) ==
    IF new = <<>> THEN d
    ELSE UpdatePairs(SetPair(d, Head(new)[1], Head(new)[2]), Tail(new))


\* ------------------------------------------------------------------------
\* State
\* ------------------------------------------------------------------------

VARIABLES
    session_id,                 \* DataManager.session_id
    data,                       \* UserDict.data: <<[key, value], ...>> in insertion order
    do_not_display,             \* DataManager.do_not_display
    do_not_save,                \* DataManager.do_not_save
    do_not_append_session_id,   \* DataManager.do_not_append_session_id
    save_kwargs,                \* DataManager.save_kwargs
    load_kwargs,                \* DataManager.load_kwargs
    filemanager,                \* DataManager.filemanager: {<<short name, path>>}
    disk,                       \* the files: path -> content, NoneV where there is no file
    locked,                     \* the paths whose file cannot be written
    go,                         \* SaveDaemon.go
    sleep,                      \* SaveDaemon.sleep
    funcs,                      \* SaveDaemon.funcs
    pc,                         \* where the daemon thread is
    idx,                        \* the position of run()'s list iterator
    calls,                      \* the callbacks invoked in the round in progress
    raised_in_round,            \* the positions whose callback raised in that round
    after_stop,                 \* the positions invoked since stop_daemon() was first called
    rounds,                     \* the rounds started
    saved_from,                 \* path -> the container save_caches() last wrote there, and the registry that did
    suffixed,                   \* {<<name, value>>}: the last registration of name with the session id appended
    last,                       \* the last call made and what it returned
    own,                        \* the flags and options this DataManager itself has recorded
    other,                      \* the other DataManager of the process: its session_id, data and own
    trav                        \* the traversal of the registry the daemon thread is in

registry_vars == <<session_id, data, do_not_display, do_not_save,
                   do_not_append_session_id, save_kwargs, load_kwargs,
                   filemanager>>

\* what of the registry a save does not even look up
registry_frame == <<session_id, data, do_not_display, do_not_save,
                    do_not_append_session_id, load_kwargs, filemanager>>

daemon_vars == <<go, sleep, funcs, pc, idx, calls, raised_in_round,
                 after_stop, rounds>>

vars == <<session_id, data, do_not_display, do_not_save,
          do_not_append_session_id, save_kwargs, load_kwargs, filemanager,
          disk, locked, saved_from, suffixed, go, sleep, funcs, pc, idx, calls, raised_in_round,
          after_stop, rounds, last, own, other, trav>>

\* ------------------------------------------------------------------------
\* The registry as one value, so that a method can call another
\* ------------------------------------------------------------------------

Self == [data |-> data,
         do_not_display |-> do_not_display,
         do_not_save |-> do_not_save,
         do_not_append_session_id |-> do_not_append_session_id,
         save_kwargs |-> save_kwargs,
         load_kwargs |-> load_kwargs,
         filemanager |-> filemanager,
         raised |-> FALSE,
         fm_calls |-> <<>>]

Becomes(r) ==
    /\ data' = r.data
    /\ do_not_display' = r.do_not_display
    /\ do_not_save' = r.do_not_save
    /\ do_not_append_session_id' = r.do_not_append_session_id
    /\ save_kwargs' = r.save_kwargs
    /\ load_kwargs' = r.load_kwargs
    /\ filemanager' = r.filemanager

\* the flags and options of a registry
Meta(r) == [do_not_display |-> r.do_not_display,
            do_not_save |-> r.do_not_save,
            do_not_append_session_id |-> r.do_not_append_session_id,
            save_kwargs |-> r.save_kwargs,
            load_kwargs |-> r.load_kwargs]

\* no flag and no option recorded
NoMeta == [do_not_display |-> {}, do_not_save |-> {},
           do_not_append_session_id |-> {}, save_kwargs |-> {},
           load_kwargs |-> {}]

\* the registry r with m for its flags and options
WithMeta(r, m) == [r EXCEPT !.do_not_display = m.do_not_display,
                            !.do_not_save = m.do_not_save,
                            !.do_not_append_session_id = m.do_not_append_session_id,
                            !.save_kwargs = m.save_kwargs,
                            !.load_kwargs = m.load_kwargs]

\* key in self
HasKey(d, k) == \E i \in 1..Len(d) : d[i].key = k

\* self[k]
Lookup(d, k) == d[CHOOSE i \in 1..Len(d) : d[i].key = k].value

\* self[k] = v: an existing key keeps its place in the iteration order
SetItem(d, k, v) ==
    IF HasKey(d, k)
    THEN [i \in 1..Len(d) |-> IF d[i].key = k THEN [key |-> k, value |-> v] ELSE d[i]]
    ELSE Append(d, [key |-> k, value |-> v])

\* a kwargs dict registered under a name; "" stands for None and for {}
KwSet(m, name, kw) == {p \in m : p[1] # name} \cup {<<name, kw>>}

\* kwargs.get(name, {})
KwGet(m, name) == IF \E p \in m : p[1] = name
                  THEN (CHOOSE p \in m : p[1] = name)[2]
                  ELSE ""

\* ------------------------------------------------------------------------
\* The File Binding Layer (easyfilemanager.FileManager), as the registry
\* uses it
\* ------------------------------------------------------------------------

\* filemanager.register_file(file_name, file_path, short_name=name)
fm_register_file(fm, name, path) == {p \in fm : p[1] # name} \cup {<<name, path>>}

\* name in self.filemanager
fm_contains(fm, name) == \E p \in fm : p[1] = name

fm_path(fm, name) == (CHOOSE p \in fm : p[1] = name)[2]

\* filemanager.exists(name)
fm_exists(fm, dsk, name) == dsk[fm_path(fm, name)].kind # "none"

\* filemanager.smart_load(name, **load_kwargs)
fm_smart_load(fm, dsk, name) == dsk[fm_path(fm, name)]

\* `load and self.filemanager.exists(name)`, then smart_load(name) when
\* both hold: the calls made to the file layer, with the name passed
fm_load_calls(fm, dsk, name, load_flag) ==
    IF ~load_flag THEN <<>>
    ELSE IF fm_exists(fm, dsk, name)
         THEN <<<<"exists", name>>, <<"smart_load", name>>>>
         ELSE <<<<"exists", name>>>>

\* what smart_save leaves in the file: the contents, not the object
Snapshot(v) == [v EXCEPT !.cache = FALSE, !.fault = FALSE, !.dir = FALSE]

\* does filemanager.smart_save(name, value, ...) raise: the file cannot be
\* written, or the value cannot be read (its storage fails, or it is a class
\* and has no elements to write)
fm_save_raises(fm, lck, name, value) ==
    fm_path(fm, name) \in lck \/ value.fault \/ value.kind = "type"

\* filemanager.smart_save(name, value, ...) when it does not raise
fm_smart_save(fm, dsk, name, value) ==
    [dsk EXCEPT ![fm_path(fm, name)] = Snapshot(value)]

\* ------------------------------------------------------------------------
\* The disk-backed containers (datamanager.cachetypes, diskcache)
\* ------------------------------------------------------------------------

\* CacheSet(iterable, path)
CacheSet(items) == [SetV(Range(items)) EXCEPT !.cache = TRUE, !.dir = TRUE]

\* Deque(iterable, path)
Deque(items) == [ListV(items) EXCEPT !.cache = TRUE, !.dir = TRUE]

\* EvictingIndex(path, **pairs)
EvictingIndex(pairs) == [DictV(pairs) EXCEPT !.cache = TRUE, !.dir = TRUE]

\* f(**m) raises TypeError unless m is a mapping whose keys are all str
KeywordsOk(v) == v.kind = "dict" /\ \A i \in 1..Len(v.d) : ~IsInt(v.d[i][1])

\* ------------------------------------------------------------------------
\* DataManager
\* ------------------------------------------------------------------------

\* register(name, data, display, append_session_id)
register(r, sid, name, value, display, append_session_id) ==
    LET key == IF append_session_id THEN name \o sid ELSE name
        dnas == IF append_session_id THEN r.do_not_append_session_id
                ELSE r.do_not_append_session_id \cup {name \o sid}
        dnd == IF display THEN r.do_not_display
               ELSE r.do_not_display \cup {key}
    IN [r EXCEPT !.do_not_append_session_id = dnas,
                 !.do_not_display = dnd,
                 !.data = SetItem(r.data, key, value)]

\* get(k, optional): found tells a stored entry from the default
get(r, sid, k) ==
    LET k1 == k \o sid
        k2 == IF k1 \in r.do_not_append_session_id THEN Replace(k1, sid) ELSE k1
    IN IF HasKey(r.data, k2)
       THEN [found |-> TRUE, key |-> k2, value |-> Lookup(r.data, k2)]
       ELSE [found |-> FALSE, key |-> k2, value |-> NoneV]

\* self[name].update(loaded_data): a set takes the elements, a dict takes
\* the pairs of a mapping and raises on scalars; a list has no update
update(cur, loaded, items) ==
    CASE cur.kind = "set" -> [ok |-> TRUE, value |-> [cur EXCEPT !.s = cur.s \cup Range(items)]]
      [] cur.kind = "dict" ->
           IF loaded.kind = "dict"
           THEN [ok |-> TRUE, value |-> [cur EXCEPT !.d = UpdatePairs(cur.d, loaded.d)]]
           ELSE [ok |-> items = <<>>, value |-> cur]
      [] OTHER -> [ok |-> FALSE, value |-> cur]

\* self[name].extend(loaded_data): a list takes the elements; a set and a
\* dict have no extend
extend(cur, items) ==
    IF cur.kind = "list" THEN [ok |-> TRUE, value |-> [cur EXCEPT !.l = cur.l \o items]]
    ELSE [ok |-> FALSE, value |-> cur]

\* load(data, loaded_data, name): the loaded data merged into self[name]
load(r, initial, loaded, name) ==
    LET items == IF loaded.kind # "dict" THEN numericize(Items(loaded))
                 ELSE Keys(loaded.d)
        cur == Lookup(r.data, name)
        res == IF initial.kind = "list" THEN extend(cur, items)
               ELSE update(cur, loaded, items)
    IN IF initial.kind \notin {"set", "list", "dict"} THEN r
       ELSE IF ~HasKey(r.data, name) \/ ~res.ok THEN [r EXCEPT !.raised = TRUE]
       ELSE [r EXCEPT !.data = SetItem(r.data, name, res.value)]

\* file_update(name, data)
file_update(r, name, value) == [r EXCEPT !.data = SetItem(r.data, name, value)]

\* register_file(name, initial_data, path_to_file, display, load, save,
\* save_kwargs, load_kwargs); dsk is the disk it reads
register_file(r, sid, dsk, name, initial_data, path_to_file, display, load_flag, save_flag, skw, lkw) ==
    IF initial_data.kind = "type" THEN [r EXCEPT !.raised = TRUE]
    ELSE
    LET r1 == [r EXCEPT
                 !.do_not_display = IF display THEN @ ELSE @ \cup {name},
                 !.do_not_save = IF save_flag THEN @ ELSE @ \cup {name},
                 !.save_kwargs = IF skw # "" THEN KwSet(@, name, skw) ELSE @,
                 !.load_kwargs = IF lkw # "" THEN KwSet(@, name, lkw) ELSE @,
                 !.filemanager = fm_register_file(@, name, path_to_file)]
        loaded_data == IF load_flag /\ fm_exists(r1.filemanager, dsk, name)
                       THEN fm_smart_load(r1.filemanager, dsk, name)
                       ELSE NoneV
        r2 == register([r1 EXCEPT !.fm_calls =
                            fm_load_calls(r1.filemanager, dsk, name, load_flag)],
                       sid, name, initial_data, display, FALSE)
    IN IF Truthy(loaded_data) THEN load(r2, initial_data, loaded_data, name)
       ELSE r2

\* _create_cache(initial_data, loaded_data, name, directory)
create_cache(r, initial_data, loaded_data, name) ==
    CASE initial_data.kind = "set" ->
           LET seed == IF Truthy(loaded_data)
                       THEN numericize(Items(loaded_data))
                       ELSE <<>>
           IN [r EXCEPT !.data = SetItem(r.data, name, CacheSet(seed))]
      [] initial_data.kind = "list" ->
           LET seed == IF Truthy(loaded_data) THEN Items(loaded_data) ELSE <<>>
           IN [r EXCEPT !.data = SetItem(r.data, name, Deque(seed))]
      [] initial_data.kind = "dict" ->
           IF ~Truthy(loaded_data)
           THEN [r EXCEPT !.data = SetItem(r.data, name, EvictingIndex(NoPairs))]
           ELSE IF KeywordsOk(loaded_data)
           THEN [r EXCEPT !.data = SetItem(r.data, name, EvictingIndex(loaded_data.d))]
           ELSE [r EXCEPT !.raised = TRUE]
      [] OTHER -> r

\* a register_cache that binds the file to the name as the caller gave it
short_name_as_given(name, key) == name

\* the name register_cache passes to the file layer: its variable name,
\* which line 131 has reassigned to the key
short_name(name, key) == key

\* register_cache(name, initial_data, path_to_file, display, load, save,
\* save_kwargs, load_kwargs, directory, append_session_id); path_to_file ""
\* stands for None
register_cache(r, sid, dsk, name, initial_data, path_to_file, display, load_flag, save_flag, skw, lkw, append_session_id) ==
    IF initial_data.kind = "type" THEN [r EXCEPT !.raised = TRUE]
    ELSE
    LET key == IF append_session_id THEN name \o sid ELSE name
        short == short_name(name, key)
        r1 == [r EXCEPT
                 !.do_not_append_session_id =
                     IF append_session_id THEN @ ELSE @ \cup {name \o sid},
                 !.do_not_display = IF display THEN @ ELSE @ \cup {key},
                 !.do_not_save = IF save_flag THEN @ ELSE @ \cup {key},
                 !.save_kwargs = IF skw # "" THEN KwSet(@, key, skw) ELSE @,
                 !.load_kwargs = IF lkw # "" THEN KwSet(@, key, lkw) ELSE @,
                 !.filemanager = IF path_to_file # ""
                                 THEN fm_register_file(@, short, path_to_file)
                                 ELSE @]
        loaded_data ==
            IF path_to_file = "" THEN NoneV
            ELSE IF load_flag /\ fm_exists(r1.filemanager, dsk, short)
                 THEN fm_smart_load(r1.filemanager, dsk, short)
                 ELSE initial_data
        r2 == [r1 EXCEPT !.fm_calls =
                 IF path_to_file = "" THEN <<>>
                 ELSE fm_load_calls(r1.filemanager, dsk, short, load_flag)]
    IN create_cache(r2, initial_data, loaded_data, key)

\* a traversal that skips only the names without a file
not_saved_unbound_only(r, name) == ~fm_contains(r.filemanager, name)

\* name not in self.filemanager or name in self.do_not_save
not_saved(r, name) == ~fm_contains(r.filemanager, name) \/ name \in r.do_not_save

\* what a traversal has done so far; save_kwargs is the registry's dict as
\* the traversal leaves it
NoWrites(dsk) == [disk |-> dsk, written |-> <<>>, logged |-> <<>>,
                  raised |-> FALSE, paths |-> {}, save_kwargs |-> {}]

Wrote(acc, fm, name, value, kw) ==
    [acc EXCEPT !.disk = fm_smart_save(fm, acc.disk, name, value),
                !.written = Append(@, <<name, kw>>),
                !.paths = @ \cup {fm_path(fm, name)}]

\* a lookup that records the default under the name: setdefault(name, {})
kwargs_after_setdefault(m, name) ==
    IF \E p \in m : p[1] = name THEN m ELSE m \cup {<<name, "">>}

\* self.save_kwargs.get(name, {}): the dict after the lookup
kwargs_after_get(m, name) == m

\* the body of save()'s loop for the entry at position i
save_entry(r, lck, i, acc) ==
    LET name == r.data[i].key
        value == r.data[i].value
        looked == [acc EXCEPT !.save_kwargs = kwargs_after_get(@, name)]
    IN IF not_saved(r, name) THEN acc
       ELSE IF value.fault THEN [acc EXCEPT !.raised = TRUE]
       ELSE IF ~Truthy(value) THEN acc
       ELSE IF fm_save_raises(r.filemanager, lck, name, value)
       THEN [looked EXCEPT !.logged = Append(@, name)]
       ELSE Wrote(looked, r.filemanager, name, value, KwGet(r.save_kwargs, name))

\* save()'s loop from position i on
RECURSIVE save_from(_, _, _, _)
save_from(r, lck, i, acc) ==
    IF i > Len(r.data) \/ acc.raised THEN acc
    ELSE save_from(r, lck, i + 1, save_entry(r, lck, i, acc))

\* save()
save(r, dsk, lck) ==
    save_from(r, lck, 1, [NoWrites(dsk) EXCEPT !.save_kwargs = r.save_kwargs])

\* the body of save_caches()'s loop for the entry at position i
save_caches_entry(r, lck, i, acc) ==
    LET name == r.data[i].key
        value == r.data[i].value
        snapshot == IF value.kind = "dict" THEN DictV(value.d)
                    ELSE ListV(Items(value))
        looked == [acc EXCEPT !.save_kwargs = kwargs_after_get(@, name)]
    IN IF not_saved(r, name) \/ ~value.cache THEN looked
       ELSE IF fm_save_raises(r.filemanager, lck, name, value)
       THEN [looked EXCEPT !.raised = TRUE]
       ELSE Wrote(looked, r.filemanager, name, snapshot, KwGet(r.save_kwargs, name))

\* save_caches()'s loop from position i on
RECURSIVE save_caches_from(_, _, _, _)
save_caches_from(r, lck, i, acc) ==
    IF i > Len(r.data) \/ acc.raised THEN acc
    ELSE save_caches_from(r, lck, i + 1, save_caches_entry(r, lck, i, acc))

\* save_caches()
save_caches(r, dsk, lck) ==
    save_caches_from(r, lck, 1, [NoWrites(dsk) EXCEPT !.save_kwargs = r.save_kwargs])

\* isinstance(v, Sized): a collection is, a class is not
Sized(v) == v.kind \in {"set", "list", "dict"}

\* get_data_string(): the lines between the two borders, one <<name, length>>
\* for each entry displayed
RECURSIVE get_data_string_from(_, _)
get_data_string_from(r, i) ==
    IF i > Len(r.data) THEN <<>>
    ELSE IF r.data[i].key \in r.do_not_display \/ ~Sized(r.data[i].value)
    THEN get_data_string_from(r, i + 1)
    ELSE <<<<r.data[i].key, Size(r.data[i].value)>>>> \o get_data_string_from(r, i + 1)

get_data_string(r) == get_data_string_from(r, 1)

\* value.clear()
clear(v) == [v EXCEPT !.s = {}, !.l = <<>>, !.d = NoPairs]

\* isinstance(value, (CacheSet, Deque, Index)); the sources at hand do not
\* say whether an EvictingIndex is an Index, which is_index decides
is_cleaned(value, is_index) ==
    value.cache /\ (value.kind \in {"set", "list"} \/ is_index)

\* the body of clean()'s loop for the entry at position i, then the rest;
\* shutil.rmtree raises when the directory is not there
RECURSIVE clean_from(_, _, _)
clean_from(r, i, is_index) ==
    IF i > Len(r.data) THEN r
    ELSE
    LET name == r.data[i].key
        value == r.data[i].value
    IN IF ~fm_contains(r.filemanager, name) \/ ~is_cleaned(value, is_index)
       THEN clean_from(r, i + 1, is_index)
       ELSE IF value.fault
       THEN [r EXCEPT !.raised = TRUE]
       ELSE IF ~value.dir
       THEN [r EXCEPT !.data = SetItem(r.data, name, clear(value)),
                      !.raised = TRUE]
       ELSE clean_from([r EXCEPT !.data = SetItem(r.data, name,
                                             [clear(value) EXCEPT !.dir = FALSE])],
                       i + 1, is_index)

\* clean()
clean(r, is_index) == clean_from(r, 1, is_index)

\* ------------------------------------------------------------------------
\* SaveDaemon
\* ------------------------------------------------------------------------

\* SaveDaemon.__init__'s default sleep_interval
SleepInterval == 15

\* a loop that does not read the flag
loop_ignores_flag(g) == TRUE

\* run()'s loop test: while self.go
loop_continues(g) == g

\* a loop without the try/except: an exception ends the thread
after_callback_uncaught(callback_raised) == IF callback_raised THEN "dead" ELSE "iter"

\* run()'s try/except around func(): where the thread is after the callback
\* returned or raised
after_callback(callback_raised) == "iter"

\* ------------------------------------------------------------------------
\* Initial state: a DataManager just constructed, in a fresh process
\* ------------------------------------------------------------------------

\* randint(100000, 999999): the values the runs draw
SessionIdNums == {100000, 123412}

Paths == {"p", "q"}

\* at: where the daemon thread was when the call was made (its place, its
\* iterator's position, its round)
NoLast == [op |-> "", name |-> <<>>, key |-> <<>>, append |-> FALSE,
           initial |-> NoneV, loaded |-> NoneV, path |-> "", load |-> FALSE,
           raised |-> FALSE, written |-> <<>>, logged |-> <<>>,
           at |-> <<"", 0, 0>>, save |-> TRUE, fm_calls |-> <<>>]

NotSaved == [from |-> NoneV, by |-> <<>>]

\* no other DataManager has been constructed
NoOther == [session_id |-> <<>>, data |-> <<>>, own |-> NoMeta, suffixed |-> {}]

\* the daemon thread is in no traversal; cut is the round in which a
\* traversal was last ended by the registry changing size
NoTraversal == [pos |-> 0, size |-> 0, cut |-> 0]

\* DataManager.__init__ and SaveDaemon.__init__; the files are whatever
\* earlier runs left
InitWith(ids, files) ==
    /\ session_id \in {str(n) : n \in ids}
    /\ data = <<>>
    /\ do_not_display = {}
    /\ do_not_save = {}
    /\ do_not_append_session_id = {}
    /\ save_kwargs = {}
    /\ load_kwargs = {}
    /\ filemanager = {}
    /\ disk \in [Paths -> files \cup {NoneV}]
    /\ locked = {}
    /\ saved_from = [p \in Paths |-> NotSaved]
    /\ suffixed = {}
    /\ go = TRUE
    /\ sleep = SleepInterval
    /\ funcs = <<"save", "save_caches">>
    /\ pc = "idle"
    /\ idx = 0
    /\ calls = <<>>
    /\ raised_in_round = {}
    /\ after_stop = <<>>
    /\ rounds = 0
    /\ last = NoLast
    /\ own = NoMeta
    /\ other = NoOther
    /\ trav = NoTraversal

\* ------------------------------------------------------------------------
\* Registry operations as actions; cap bounds the number of entries
\* ------------------------------------------------------------------------

Room(cap, key) == HasKey(data, key) \/ Len(data) < cap

\* the history of the suffixed registrations, name registered again
Suffixed(name, value) == {p \in suffixed : p[1] # name} \cup {<<name, value>>}

Register(cap, name, value, display, append_session_id) ==
    /\ Room(cap, IF append_session_id THEN name \o session_id ELSE name)
    /\ Becomes(register(Self, session_id, name, value, display, append_session_id))
    /\ last' = [NoLast EXCEPT !.op = "register", !.name = name,
                  !.key = IF append_session_id THEN name \o session_id ELSE name,
                  !.append = append_session_id, !.initial = value]
    /\ suffixed' = IF append_session_id THEN Suffixed(name, value) ELSE suffixed
    /\ own' = Meta(register(WithMeta(Self, own), session_id, name, value,
                            display, append_session_id))
    /\ UNCHANGED <<other, trav, session_id, disk, locked, saved_from, daemon_vars>>

RegisterFile(cap, name, initial_data, path_to_file, display, load_flag, save_flag, skw, lkw) ==
    /\ Room(cap, name)
    /\ LET r == register_file(Self, session_id, disk, name, initial_data,
                              path_to_file, display, load_flag, save_flag, skw, lkw)
       IN /\ Becomes(r)
          /\ last' = [NoLast EXCEPT !.op = "register_file", !.name = name,
                        !.key = name, !.initial = initial_data,
                        !.loaded = disk[path_to_file], !.path = path_to_file,
                        !.load = load_flag, !.raised = r.raised,
                        !.save = save_flag, !.fm_calls = r.fm_calls]
    /\ own' = Meta(register_file(WithMeta(Self, own), session_id, disk, name,
                                 initial_data, path_to_file, display, load_flag,
                                 save_flag, skw, lkw))
    /\ UNCHANGED <<other, trav, suffixed, session_id, disk, locked, saved_from, daemon_vars>>

RegisterCache(cap, name, initial_data, path_to_file, display, load_flag, save_flag, skw, lkw, append_session_id) ==
    /\ Room(cap, IF append_session_id THEN name \o session_id ELSE name)
    /\ LET r == register_cache(Self, session_id, disk, name, initial_data,
                               path_to_file, display, load_flag, save_flag,
                               skw, lkw, append_session_id)
       IN /\ Becomes(r)
          /\ last' = [NoLast EXCEPT !.op = "register_cache", !.name = name,
                        !.key = IF append_session_id THEN name \o session_id ELSE name,
                        !.append = append_session_id, !.initial = initial_data,
                        !.loaded = IF path_to_file = "" THEN NoneV ELSE disk[path_to_file],
                        !.path = path_to_file, !.load = load_flag,
                        !.raised = r.raised, !.save = save_flag,
                        !.fm_calls = r.fm_calls]
          /\ suffixed' = IF append_session_id /\ ~r.raised
                         THEN Suffixed(name, Lookup(r.data, name \o session_id))
                         ELSE suffixed
    /\ own' = Meta(register_cache(WithMeta(Self, own), session_id, disk, name,
                                  initial_data, path_to_file, display, load_flag,
                                  save_flag, skw, lkw, append_session_id))
    /\ UNCHANGED <<other, trav, session_id, disk, locked, saved_from, daemon_vars>>

\* the history of the files: which container each was written from
SavedFrom(res, by_caches) ==
    [p \in Paths |->
       IF p \notin res.paths THEN saved_from[p]
       ELSE IF ~by_caches THEN NotSaved
       ELSE LET at == {j \in 1..Len(res.written) :
                         fm_path(filemanager, res.written[j][1]) = p}
                i == CHOOSE j \in at : \A k \in at : k <= j
            IN [from |-> Snapshot(Lookup(data, res.written[i][1])),
                by |-> session_id]]

\* the caller's thread calls save()
Save ==
    /\ LET res == save(Self, disk, locked)
       IN /\ disk' = res.disk
          /\ saved_from' = SavedFrom(res, FALSE)
          /\ save_kwargs' = res.save_kwargs
          /\ last' = [NoLast EXCEPT !.op = "save", !.written = res.written,
                        !.logged = res.logged, !.raised = res.raised]
    /\ UNCHANGED <<own, other, trav, suffixed, registry_frame, locked, daemon_vars>>

\* the caller's thread calls save_caches()
SaveCaches ==
    /\ LET res == save_caches(Self, disk, locked)
       IN /\ disk' = res.disk
          /\ saved_from' = SavedFrom(res, TRUE)
          /\ save_kwargs' = res.save_kwargs
          /\ last' = [NoLast EXCEPT !.op = "save_caches", !.written = res.written,
                        !.logged = res.logged, !.raised = res.raised]
    /\ UNCHANGED <<own, other, trav, suffixed, registry_frame, locked, daemon_vars>>

\* ------------------------------------------------------------------------
\* What happens around the registry
\* ------------------------------------------------------------------------

\* most elements a caller adds to a sequence
MaxLen == 2

\* the caller mutates an entry's collection: add(x), append(x), d[x] = x
Mutate(key, x) ==
    /\ HasKey(data, key)
    /\ LET v == Lookup(data, key)
       IN /\ ~v.fault
          /\ v.kind = "list" => Len(v.l) < MaxLen
          /\ data' = SetItem(data, key,
                        CASE v.kind = "set" -> [v EXCEPT !.s = @ \cup {x}]
                          [] v.kind = "list" -> [v EXCEPT !.l = Append(@, x)]
                          [] v.kind = "dict" -> [v EXCEPT !.d = SetPair(@, x, x)]
                          [] OTHER -> v)
          /\ data' # data
    /\ suffixed' = {<<p[1], IF p[1] \o session_id = key
                            THEN Lookup(data', key) ELSE p[2]>> : p \in suffixed}
    /\ last' = [NoLast EXCEPT !.op = "mutate", !.key = key]
    /\ UNCHANGED <<own, other, trav, session_id, do_not_display, do_not_save,
                   do_not_append_session_id, save_kwargs, load_kwargs,
                   filemanager, disk, locked, saved_from, daemon_vars>>

\* the storage of a disk-backed container starts to fail: reading it raises
StorageFault(key) ==
    /\ HasKey(data, key)
    /\ Lookup(data, key).cache
    /\ ~Lookup(data, key).fault
    /\ data' = SetItem(data, key, [Lookup(data, key) EXCEPT !.fault = TRUE])
    /\ last' = [NoLast EXCEPT !.op = "fault", !.key = key]
    /\ UNCHANGED <<own, other, trav, suffixed, session_id, do_not_display, do_not_save,
                   do_not_append_session_id, save_kwargs, load_kwargs,
                   filemanager, disk, locked, saved_from, daemon_vars>>

\* a file becomes unwritable (locked, or its directory read-only)
LockFile(path) ==
    /\ path \notin locked
    /\ locked' = locked \cup {path}
    /\ last' = [NoLast EXCEPT !.op = "lock", !.path = path]
    /\ UNCHANGED <<own, other, trav, suffixed, registry_vars, disk, saved_from, daemon_vars>>

\* the process ends and a new one constructs a DataManager: the class-level
\* lists, the FileManager and the daemon are new, the files remain
Restart(id) ==
    /\ last.op # "restart"
    /\ session_id' = str(id)
    /\ data' = <<>>
    /\ do_not_display' = {}
    /\ do_not_save' = {}
    /\ do_not_append_session_id' = {}
    /\ save_kwargs' = {}
    /\ load_kwargs' = {}
    /\ filemanager' = {}
    /\ go' = TRUE
    /\ sleep' = SleepInterval
    /\ funcs' = <<"save", "save_caches">>
    /\ pc' = "idle"
    /\ idx' = 0
    /\ calls' = <<>>
    /\ raised_in_round' = {}
    /\ after_stop' = <<>>
    /\ rounds' = 0
    /\ suffixed' = {}
    /\ last' = [NoLast EXCEPT !.op = "restart"]
    /\ own' = NoMeta
    /\ other' = NoOther
    /\ trav' = NoTraversal
    /\ UNCHANGED <<disk, locked, saved_from>>

\* the history of the suffixed registrations, their containers as they are
\* in d
Resuffixed(d) ==
    {<<p[1], IF HasKey(d, p[1] \o session_id)
             THEN Lookup(d, p[1] \o session_id) ELSE p[2]>> : p \in suffixed}

\* the caller calls load(data, loaded_data, name)
Load(initial, loaded, name) ==
    /\ LET r == load(Self, initial, loaded, name)
       IN /\ \A i \in 1..Len(r.data) : Len(r.data[i].value.l) <= MaxLen
          /\ Becomes(r)
          /\ suffixed' = Resuffixed(r.data)
          /\ last' = [NoLast EXCEPT !.op = "load", !.name = name, !.key = name,
                        !.initial = initial, !.loaded = loaded,
                        !.raised = r.raised]
    /\ UNCHANGED <<own, other, trav, session_id, disk, locked, saved_from, daemon_vars>>

\* the caller calls file_update(name, data)
FileUpdate(cap, name, value) ==
    /\ Room(cap, name)
    /\ LET r == file_update(Self, name, value)
       IN /\ Becomes(r)
          /\ suffixed' = Resuffixed(r.data)
    /\ last' = [NoLast EXCEPT !.op = "file_update", !.name = name, !.key = name,
                  !.initial = value]
    /\ UNCHANGED <<own, other, trav, session_id, disk, locked, saved_from, daemon_vars>>

\* the caller calls clean()
Clean ==
    /\ \E is_index \in BOOLEAN :
          LET r == clean(Self, is_index)
          IN /\ Becomes(r)
             /\ suffixed' = Resuffixed(r.data)
             /\ last' = [NoLast EXCEPT !.op = "clean", !.raised = r.raised]
    /\ UNCHANGED <<own, other, trav, session_id, disk, locked, saved_from, daemon_vars>>

\* a second DataManager is constructed in the process, and the caller goes
\* on with it: its session id and entries are new, the class-level lists,
\* dicts and FileManager are the ones of the class; the save daemons of
\* both are idle
NewInstance(id) ==
    /\ other = NoOther
    /\ pc = "idle"
    /\ other' = [session_id |-> session_id, data |-> data, own |-> own,
                 suffixed |-> suffixed]
    /\ session_id' = str(id)
    /\ data' = <<>>
    /\ own' = NoMeta
    /\ suffixed' = {}
    /\ last' = [NoLast EXCEPT !.op = "new"]
    /\ UNCHANGED <<trav, do_not_display, do_not_save, do_not_append_session_id,
                   save_kwargs, load_kwargs, filemanager, disk, locked,
                   saved_from, daemon_vars>>

\* the caller goes on with the other DataManager
Switch ==
    /\ other # NoOther
    /\ pc = "idle"
    /\ other' = [session_id |-> session_id, data |-> data, own |-> own,
                 suffixed |-> suffixed]
    /\ session_id' = other.session_id
    /\ data' = other.data
    /\ own' = other.own
    /\ suffixed' = other.suffixed
    /\ last' = [NoLast EXCEPT !.op = "switch"]
    /\ UNCHANGED <<trav, do_not_display, do_not_save, do_not_append_session_id,
                   save_kwargs, load_kwargs, filemanager, disk, locked,
                   saved_from, daemon_vars>>

\* ------------------------------------------------------------------------
\* The daemon thread and the calls that drive it
\* ------------------------------------------------------------------------

\* start_save_daemon(sleep_time): Thread.start() raises once the thread has
\* been started
StartSaveDaemon(sleep_time) ==
    /\ sleep' = IF sleep_time # 0 THEN sleep_time ELSE sleep
    /\ pc' = IF pc = "idle" THEN "top" ELSE pc
    /\ last' = [NoLast EXCEPT !.op = "start_save_daemon", !.raised = (pc # "idle")]
    /\ UNCHANGED <<own, other, trav, suffixed, registry_vars, disk, locked, saved_from, go, funcs, idx,
                   calls, raised_in_round, after_stop, rounds>>

\* stop_daemon()
StopDaemon ==
    /\ go
    /\ go' = FALSE
    /\ last' = [NoLast EXCEPT !.op = "stop_daemon"]
    /\ UNCHANGED <<own, other, trav, suffixed, registry_vars, disk, locked, saved_from, sleep, funcs, pc,
                   idx, calls, raised_in_round, after_stop, rounds>>

\* a list that puts the new element first
funcs_insert_first(l, f) == <<f>> \o l

\* list.append
funcs_append(l, f) == Append(l, f)

\* save_daemon.funcs.append(f)
AddCallback(f) ==
    /\ Len(funcs) < MaxFuncs
    /\ funcs' = funcs_append(funcs, f)
    /\ last' = [NoLast EXCEPT !.op = "append", !.at = <<pc, idx, rounds>>]
    /\ UNCHANGED <<own, other, trav, suffixed, registry_vars, disk, locked, saved_from, go, sleep, pc,
                   idx, calls, raised_in_round, after_stop, rounds>>

\* run(): the loop test; a round begins with a new list iterator
LoopTest ==
    /\ pc = "top"
    /\ IF loop_continues(go)
       THEN /\ rounds < MaxRounds
            /\ pc' = "iter"
            /\ idx' = 1
            /\ calls' = <<>>
            /\ raised_in_round' = {}
            /\ rounds' = rounds + 1
       ELSE /\ pc' = "stopped"
            /\ UNCHANGED <<idx, calls, raised_in_round, rounds>>
    /\ UNCHANGED <<own, other, trav, suffixed, registry_vars, disk, locked, saved_from, go, sleep, funcs,
                   after_stop, last>>

\* what the callback at the iterator's position does: save and save_caches
\* are the registry's, any other callback returns or raises
Outcome(f, user_raises) ==
    CASE f = "save" -> save(Self, disk, locked)
      [] f = "save_caches" -> save_caches(Self, disk, locked)
      [] OTHER -> [NoWrites(disk) EXCEPT !.raised = user_raises,
                                          !.save_kwargs = save_kwargs]

\* run(): the iterator yields funcs[idx] and the callback runs to its end
Invoke(user_raises) ==
    /\ pc = "iter"
    /\ idx <= Len(funcs)
    /\ funcs[idx] \in {"save", "save_caches"} => ~user_raises
    /\ LET res == Outcome(funcs[idx], user_raises)
       IN /\ disk' = res.disk
          /\ save_kwargs' = res.save_kwargs
          /\ saved_from' = SavedFrom(res, funcs[idx] = "save_caches")
          /\ raised_in_round' = IF res.raised THEN raised_in_round \cup {idx}
                                ELSE raised_in_round
          /\ pc' = after_callback(res.raised)
    /\ calls' = Append(calls, funcs[idx])
    /\ after_stop' = IF go THEN after_stop ELSE Append(after_stop, idx)
    /\ idx' = idx + 1
    /\ UNCHANGED <<own, other, trav, suffixed, registry_frame, locked, go, sleep, funcs,
                   rounds, last>>

\* run(): the iterator is exhausted and the thread goes to sleep
Exhaust ==
    /\ pc = "iter"
    /\ idx > Len(funcs)
    /\ pc' = "sleep"
    /\ UNCHANGED <<own, other, trav, suffixed, registry_vars, disk, locked, saved_from, go, sleep, funcs,
                   idx, calls, raised_in_round, after_stop, rounds, last>>

\* run(): sleep(self.sleep) returns
Wake ==
    /\ pc = "sleep"
    /\ pc' = "top"
    /\ UNCHANGED <<own, other, trav, suffixed, registry_vars, disk, locked, saved_from, go, sleep, funcs,
                   idx, calls, raised_in_round, after_stop, rounds, last>>

\* run(): the iterator yields save or save_caches, and the callback begins
\* its loop: self.items() is given an iterator, which notes the size of
\* the dict
Enter ==
    /\ pc = "iter"
    /\ idx <= Len(funcs)
    /\ funcs[idx] \in {"save", "save_caches"}
    /\ pc' = "in"
    /\ trav' = [trav EXCEPT !.pos = 1, !.size = Len(data)]
    /\ calls' = Append(calls, funcs[idx])
    /\ after_stop' = IF go THEN after_stop ELSE Append(after_stop, idx)
    /\ UNCHANGED <<own, other, suffixed, registry_vars, disk, locked, saved_from,
                   go, sleep, funcs, idx, raised_in_round, rounds, last>>

\* the callback's loop takes the next entry: the dict iterator raises
\* RuntimeError if the dict has changed size since the loop began, ends the
\* loop after the last entry, and otherwise the loop body runs for the
\* entry; a callback that raised or returned gives way to run()
Visit ==
    /\ pc = "in"
    /\ LET changed == Len(data) # trav.size
           done == ~changed /\ trav.pos > Len(data)
           start == [NoWrites(disk) EXCEPT !.save_kwargs = save_kwargs]
           res == IF changed \/ done THEN start
                  ELSE IF funcs[idx] = "save"
                       THEN save_entry(Self, locked, trav.pos, start)
                       ELSE save_caches_entry(Self, locked, trav.pos, start)
           raised == changed \/ res.raised
       IN /\ disk' = res.disk
          /\ save_kwargs' = res.save_kwargs
          /\ saved_from' = SavedFrom(res, funcs[idx] = "save_caches")
          /\ IF raised \/ done
             THEN /\ pc' = after_callback(raised)
                  /\ idx' = idx + 1
                  /\ raised_in_round' = IF raised THEN raised_in_round \cup {idx}
                                        ELSE raised_in_round
                  /\ trav' = [pos |-> 0, size |-> 0,
                              cut |-> IF changed THEN rounds ELSE trav.cut]
             ELSE /\ trav' = [trav EXCEPT !.pos = @ + 1]
                  /\ UNCHANGED <<pc, idx, raised_in_round>>
    /\ UNCHANGED <<own, other, suffixed, registry_frame, locked, go, sleep, funcs,
                   calls, after_stop, rounds, last>>

\* ------------------------------------------------------------------------
\* Inputs
\* ------------------------------------------------------------------------

I1 == IntV(1)

S1 == StrV(<<"1">>)

Sa == StrV(<<"a">>)

NameA == <<"a">>

NameB == <<"b">>

\* a name that contains the digits of the session id 100000
NameWithId == <<"a", "1", "0", "0", "0", "0", "0">>

\* a name whose end is the beginning of the session id 123412
NameOverlap == <<"1", "2", "3", "4">>

\* ------------------------------------------------------------------------
\* SpecNames: registrations under names related and unrelated to the
\* session id, and the lookups that follow
\* ------------------------------------------------------------------------

NameInputs == {NameA, NameWithId, NameOverlap}

NameValues == {SetV({I1}), ListV(<<Sa>>)}

InitNames == InitWith(SessionIdNums, {})

NamesRegister ==
    \E n \in NameInputs, v \in NameValues, a \in BOOLEAN :
        Register(MaxEntries, n, v, TRUE, a)

NamesRegisterFile ==
    \E n \in NameInputs, v \in NameValues :
        RegisterFile(MaxEntries, n, v, "p", TRUE, TRUE, TRUE, "", "")

NamesRegisterCache ==
    \E n \in NameInputs, v \in NameValues, a \in BOOLEAN :
        RegisterCache(MaxEntries, n, v, "", TRUE, TRUE, TRUE, "", "", a)

NextNames == NamesRegister \/ NamesRegisterFile \/ NamesRegisterCache

SpecNames == InitNames /\ [][NextNames]_vars

\* ------------------------------------------------------------------------
\* SpecSave: file-bound entries, in memory and disk-backed, empty and not,
\* flagged no-save and not; storage that fails, files that cannot be
\* written; save() and save_caches() called by the caller
\* ------------------------------------------------------------------------

SaveNames == {NameA, NameB}

InitSave == InitWith({100000}, {})

\* each name has its own file
PathOf(n) == IF n = NameA THEN "p" ELSE "q"

\* the save options each name is registered with
KwOf(n) == IF n = NameA THEN "w" ELSE "x"

SaveRegisterFile ==
    \E n \in SaveNames, v \in {SetV({Sa}), SetV({})}, s \in BOOLEAN :
        RegisterFile(MaxEntries, n, v, PathOf(n), TRUE, FALSE, s, KwOf(n), "")

SaveRegisterCache ==
    \E n \in SaveNames :
        RegisterCache(MaxEntries, n, ListV(<<I1>>), PathOf(n), TRUE, FALSE, TRUE, "", "", FALSE)

SaveStorageFault == \E n \in SaveNames : StorageFault(n)

SaveLockFile == \E p \in Paths : LockFile(p)

NextSave ==
    \/ SaveRegisterFile
    \/ SaveRegisterCache
    \/ SaveStorageFault
    \/ SaveLockFile
    \/ Save
    \/ SaveCaches

SpecSave == InitSave /\ [][NextSave]_vars

\* ------------------------------------------------------------------------
\* SpecLoad: one name registered over a file that an earlier run may have
\* left, as an in-memory entry or as a disk-backed container; the caller
\* adds elements, save_caches() writes the file, a new process loads it
\* ------------------------------------------------------------------------

\* what an earlier run may have left in the file
LoadFiles == {ListV(<<S1>>), ListV(<<I1, Sa>>), ListV(<<>>),
              DictV(<<<<Sa, Sa>>, <<S1, Sa>>>>)}

\* the initial_data the caller passes
LoadInitials == {SetV({}), SetV({S1}), ListV(<<>>), ListV(<<S1>>),
                 DictV(NoPairs), DictV(<<<<Sa, I1>>, <<I1, I1>>>>)}

InitLoad ==
    /\ InitWith({100000}, LoadFiles)
    /\ disk["q"] = NoneV

LoadRegisterFile ==
    \E v \in LoadInitials, l \in BOOLEAN :
        RegisterFile(MaxEntries, NameA, v, "p", TRUE, l, TRUE, "", "")

LoadRegisterCache ==
    \E v \in LoadInitials, p \in {"", "p"}, l \in BOOLEAN :
        /\ p = "" => l
        /\ RegisterCache(MaxEntries, NameA, v, p, TRUE, l, TRUE, "", "", FALSE)

LoadMutate == \E x \in {S1, Sa} : Mutate(NameA, x)

LoadRestart == Restart(123412)

NextLoad ==
    \/ LoadRegisterFile
    \/ LoadRegisterCache
    \/ LoadMutate
    \/ SaveCaches
    \/ LoadRestart

SpecLoad == InitLoad /\ [][NextLoad]_vars

\* ------------------------------------------------------------------------
\* SpecDaemon: the daemon thread over a registry that holds one disk-backed
\* container, whose storage may fail and whose file may become unwritable,
\* so that save() and save_caches() return or raise as the code makes them;
\* the caller starts and stops the daemon and appends callbacks
\* ------------------------------------------------------------------------

\* the sleep_time values the caller passes; 0 stands for None
SleepTimes == {0, 5}

InitDaemon == InitWith({100000}, {})

DaemonRegisterCache ==
    RegisterCache(MaxEntries, NameA, ListV(<<I1>>), "p", TRUE, FALSE, TRUE, "", "", FALSE)

DaemonStorageFault == StorageFault(NameA)

DaemonLockFile == LockFile("p")

DaemonStart == \E s \in SleepTimes : StartSaveDaemon(s)

DaemonAddCallback == AddCallback("user")

DaemonInvoke == \E user_raises \in BOOLEAN : Invoke(user_raises)

NextDaemon ==
    \/ DaemonRegisterCache
    \/ DaemonStorageFault
    \/ DaemonLockFile
    \/ DaemonStart
    \/ StopDaemon
    \/ DaemonAddCallback
    \/ LoopTest
    \/ DaemonInvoke
    \/ Exhaust
    \/ Wake

SpecDaemon == InitDaemon /\ [][NextDaemon]_vars

\* the daemon is a thread of its own: the scheduler runs it whenever it has
\* a step to take, and sleep() and every callback return
DaemonThread == LoopTest \/ DaemonInvoke \/ Exhaust \/ Wake

SpecDaemonFair == SpecDaemon /\ WF_vars(DaemonThread)

\* ------------------------------------------------------------------------
\* SpecOps: every operation of the registry called by one caller, on two
\* names, with values of each kind and with a class given for a value;
\* containers with and without a file
\* ------------------------------------------------------------------------

InitOps ==
    /\ InitWith({100000}, {ListV(<<S1>>)})
    /\ disk["q"] = NoneV

OpsRegister == \E v \in {SetV({I1}), TypeV} : Register(MaxEntries, NameA, v, TRUE, FALSE)

\* the file read is short enough for the merged sequence to stay within
\* MaxLen
OpsRegisterFile ==
    \E v \in {ListV(<<S1>>), TypeV} :
        /\ Size(disk["p"]) < MaxLen
        /\ RegisterFile(MaxEntries, NameA, v, "p", TRUE, TRUE, TRUE, "", "")

\* the container of NameA has a file, which is loaded; the container of
\* NameB has none
OpsRegisterCache ==
    \E n \in SaveNames, v \in {SetV({}), ListV(<<>>), DictV(NoPairs), TypeV} :
        RegisterCache(MaxEntries, n, v, IF n = NameA THEN "p" ELSE "",
                      TRUE, TRUE, TRUE, "", "", FALSE)

OpsLoad == Load(ListV(<<>>), ListV(<<S1>>), NameA)

OpsFileUpdate == FileUpdate(MaxEntries, NameB, ListV(<<>>))

OpsMutate == Mutate(NameB, Sa)

NextOps ==
    \/ OpsRegister
    \/ OpsRegisterFile
    \/ OpsRegisterCache
    \/ OpsLoad
    \/ OpsFileUpdate
    \/ OpsMutate
    \/ Save
    \/ SaveCaches
    \/ Clean

SpecOps == InitOps /\ [][NextOps]_vars

\* ------------------------------------------------------------------------
\* SpecBind: names bound to files through register_file and through
\* register_cache with and without the session id appended; the files are
\* loaded at registration and written by save() and save_caches()
\* ------------------------------------------------------------------------

InitBind ==
    /\ InitWith({100000}, {ListV(<<S1>>)})
    /\ disk["q"] = NoneV

BindRegisterFile ==
    \E l \in BOOLEAN : RegisterFile(MaxEntries, NameA, ListV(<<>>), "p", TRUE, l, TRUE, "", "")

BindRegisterCache ==
    \E n \in SaveNames, l \in BOOLEAN, a \in BOOLEAN :
        RegisterCache(MaxEntries, n, ListV(<<>>), PathOf(n), TRUE, l, TRUE, "", "", a)

BindMutate == \E i \in 1..Len(data) : Mutate(data[i].key, Sa)

NextBind ==
    \/ BindRegisterFile
    \/ BindRegisterCache
    \/ BindMutate
    \/ Save
    \/ SaveCaches

SpecBind == InitBind /\ [][NextBind]_vars

\* ------------------------------------------------------------------------
\* SpecInstances: two DataManagers in one process, each registering the
\* same names with its own flags and options, and saving
\* ------------------------------------------------------------------------

InitInstances == InitWith({100000}, {})

\* one DataManager registers NameA flagged no-display and no-save, with
\* save options; the other registers it unflagged
InstRegisterFile ==
    \E f \in BOOLEAN :
        RegisterFile(MaxEntries, NameA, SetV({Sa}), "p", f, FALSE, f,
                     IF f THEN "" ELSE "w", "")

InstRegisterCache ==
    RegisterCache(MaxEntries, NameB, ListV(<<I1>>), "q", TRUE, FALSE, TRUE, "", "", FALSE)

InstNew == NewInstance(123412)

NextInstances ==
    \/ InstRegisterFile
    \/ InstRegisterCache
    \/ InstNew
    \/ Switch
    \/ Save
    \/ SaveCaches

SpecInstances == InitInstances /\ [][NextInstances]_vars

\* ------------------------------------------------------------------------
\* SpecInterleave: the caller registers containers while the daemon thread
\* is inside save() or save_caches(), entry by entry
\* ------------------------------------------------------------------------

InitInterleave == InitWith({100000}, {})

InterRegisterCache ==
    \E n \in SaveNames :
        RegisterCache(MaxEntries, n, ListV(<<I1>>), PathOf(n), TRUE, FALSE, TRUE, "", "", FALSE)

InterRegister == \E n \in SaveNames : Register(MaxEntries, n, SetV({I1}), TRUE, FALSE)

InterStart == StartSaveDaemon(0)

InterThread == LoopTest \/ Enter \/ Visit \/ Exhaust \/ Wake

NextInterleave == InterRegister \/ InterRegisterCache \/ InterStart \/ StopDaemon \/ InterThread

\* the daemon thread is scheduled whenever it has a step to take
SpecInterleaveFair ==
    InitInterleave /\ [][NextInterleave]_vars /\ WF_vars(InterThread)

\* ------------------------------------------------------------------------
\* Claims
\* ------------------------------------------------------------------------

\* the callbacks invoked since stop_daemon() belong to one round: the
\* iterator's positions only grow
AfterStopOneRound ==
    \A i \in 1..Len(after_stop), j \in 1..Len(after_stop) :
        i < j => after_stop[i] < after_stop[j]

\* C1: after stop_daemon() the daemon performs at most one more round of
\* callbacks (what is left of a round in progress counts as that round),
\* and once its loop has exited no callback is invoked again, whatever is
\* called afterwards.
C1_StopHalts ==
    /\ []AfterStopOneRound
    /\ [][pc = "stopped" => /\ pc' = "stopped"
                            /\ calls' = calls
                            /\ after_stop' = after_stop
                            /\ rounds' = rounds]_vars

\* C1's case: stop_daemon() was called during a round, the callbacks left in
\* that round ran, and the loop has exited
C1_Witness ==
    /\ pc = "stopped"
    /\ rounds >= 1
    /\ Len(after_stop) >= 2
    /\ last.op # "stop_daemon"

\* the thread is out of its loop only when stop_daemon() has been called
ThreadEndsOnlyOnStop == pc \notin {"idle", "top", "iter", "sleep"} => ~go

\* C5: in every round the callbacks invoked are the callback list, in the
\* order added, each once and to completion before the sleep begins; a
\* callback that raises prevents neither the callbacks after it nor the
\* next round.
C5_RoundInOrder ==
    /\ [][(pc = "iter" /\ pc' = "sleep") => calls = funcs]_vars
    /\ []ThreadEndsOnlyOnStop

\* C5's case: in the second round the first callback raised, and the round
\* went on through an appended callback to the sleep
C5_Witness ==
    /\ pc = "sleep"
    /\ rounds = 2
    /\ 1 \in raised_in_round
    /\ Len(calls) = 3
    /\ calls = funcs

\* the entry at position i is one save() is to write: file-bound and not
\* flagged no-save
Bound(i) ==
    /\ fm_contains(filemanager, data[i].key)
    /\ data[i].key \notin do_not_save

\* processing the entry at position i fails: its value cannot be read or
\* its file cannot be written
Fails(i) ==
    \/ data[i].value.fault
    \/ fm_path(filemanager, data[i].key) \in locked

IsWritten(i) == \E j \in 1..Len(last.written) : last.written[j][1] = data[i].key

\* C2: if processing one entry fails during save(), every other
\* persist-eligible entry (file-bound, not flagged no-save, non-empty) is
\* still written in that call, and save() returns without propagating the
\* failure.
C2_SaveIsolatesFailures ==
    (last.op = "save" /\ \E i \in 1..Len(data) : Bound(i) /\ Fails(i))
    => /\ ~last.raised
       /\ \A i \in 1..Len(data) :
             (Bound(i) /\ ~Fails(i) /\ Truthy(data[i].value)) => IsWritten(i)

\* C3: if the write of one disk-backed container entry fails during
\* save_caches(), every other eligible container entry (file-bound, not
\* flagged no-save) is still written in that call.
C3_SaveCachesIsolatesFailures ==
    (last.op = "save_caches"
       /\ \E i \in 1..Len(data) :
             /\ Bound(i) /\ data[i].value.cache /\ ~data[i].value.fault
             /\ fm_path(filemanager, data[i].key) \in locked)
    => \A i \in 1..Len(data) :
          (Bound(i) /\ data[i].value.cache /\ ~Fails(i)) => IsWritten(i)

\* C4: directly after register(n, v, append_session_id=False) or
\* register_file(n, ...), get(n) returns the entry stored for n and not the
\* default, for every name n and every session id.
C4_UnsuffixedRetrievable ==
    (\/ (last.op = "register" /\ ~last.append)
     \/ (last.op = "register_file" /\ ~last.raised))
    => LET g == get(Self, session_id, last.name)
       IN /\ g.found
          /\ g.key = last.name
          /\ g.value = Lookup(data, last.name)

\* C10: a name registered with the session id appended keeps answering
\* get(name) with the value registered, whatever is registered afterwards,
\* until that name is registered again with the session id appended.
C10_SuffixedRetrievable ==
    \A p \in suffixed :
        LET g == get(Self, session_id, p[1])
        IN g.found /\ g.value = p[2]

\* a container, or an entry's value, holds exactly the data x
HoldsExactly(c, x) ==
    CASE c.kind = "set" -> c.s = Range(Items(x))
      [] c.kind = "list" -> c.l = Items(x)
      [] c.kind = "dict" -> x.kind = "dict" /\ Range(c.d) = Range(x.d)
      [] OTHER -> FALSE

\* the file of the last registration was there and was loaded
LoadedFromFile == last.path # "" /\ last.load /\ last.loaded.kind # "none"

\* C6: register_cache seeds the container with the loaded data when a path
\* is given, load is true and the file exists, and with the contents of
\* initial_data in every other case.
C6_CacheSeed ==
    (last.op = "register_cache" /\ ~last.raised)
    => /\ HasKey(data, last.key)
       /\ Lookup(data, last.key).cache
       /\ Lookup(data, last.key).kind = last.initial.kind
       /\ IF LoadedFromFile
          THEN HoldsExactly(Lookup(data, last.key), last.loaded)
          ELSE HoldsExactly(Lookup(data, last.key), last.initial)

\* the pairs of a mapping with every key that parses as an integer made one
NumericKeys(d) == [i \in 1..Len(d) |-> <<TryInt(d[i][1]), d[i][2]>>]

\* the value register_file is to leave: initial merged with the loaded
\* elements (of a mapping: its pairs, as loaded_pairs), initial when nothing
\* was loaded
Reconciled(initial, loaded_items, loaded_pairs, v) ==
    /\ v.kind = initial.kind
    /\ ~v.cache
    /\ CASE initial.kind = "set" -> v.s = initial.s \cup Range(loaded_items)
         [] initial.kind = "list" -> v.l = initial.l \o loaded_items
         [] initial.kind = "dict" ->
              /\ Range(Keys(v.d)) = Range(Keys(initial.d)) \cup Range(Keys(loaded_pairs))
              /\ \A k \in Range(Keys(v.d)) :
                    PairValue(v.d, k) = IF HasPairKey(loaded_pairs, k)
                                        THEN PairValue(loaded_pairs, k)
                                        ELSE PairValue(initial.d, k)
         [] OTHER -> FALSE

\* C7 as stated: after register_file, with load true and the file there,
\* the value is initial_data reconciled with the numericized loaded data,
\* whatever its shape (set: union; sequence: initial then loaded; mapping:
\* loaded keys override); otherwise it is initial_data unchanged.
C7_ReconcileNumericizedAlways ==
    (last.op = "register_file" /\ ~last.raised)
    => IF LoadedFromFile
       THEN Reconciled(last.initial,
                       [i \in 1..Len(Items(last.loaded)) |-> TryInt(Items(last.loaded)[i])],
                       NumericKeys(last.loaded.d),
                       Lookup(data, last.key))
       ELSE Lookup(data, last.key) = last.initial

\* C7 as amended: after register_file returns, with load true and the file
\* there, the value is initial_data reconciled with the loaded data, which
\* is numericized unless it is a mapping: a loaded mapping is merged with
\* its keys as loaded. Otherwise the value is initial_data unchanged.
C7_Reconcile ==
    (last.op = "register_file" /\ ~last.raised)
    => IF LoadedFromFile
       THEN Reconciled(last.initial,
                       IF last.loaded.kind = "dict" THEN Keys(last.loaded.d)
                       ELSE [i \in 1..Len(Items(last.loaded)) |-> TryInt(Items(last.loaded)[i])],
                       last.loaded.d,
                       Lookup(data, last.key))
       ELSE Lookup(data, last.key) = last.initial

\* C7's case: a mapping with a conflicting key and an integer key, merged
\* with a loaded mapping that has the conflicting key and a key "1"
C7_Witness ==
    /\ last.op = "register_file"
    /\ ~last.raised
    /\ LoadedFromFile
    /\ last.initial = DictV(<<<<Sa, I1>>, <<I1, I1>>>>)
    /\ last.loaded = DictV(<<<<Sa, Sa>>, <<S1, Sa>>>>)
    /\ Len(Lookup(data, last.key).d) = 3
    /\ PairValue(Lookup(data, last.key).d, Sa) = Sa

\* C8: after loaded data has been reconciled with the initial value of a set
\* or sequence entry, the entry never holds both an integer k and a string
\* that parses to k.
C8_NoMixedRepresentation ==
    (last.op = "register_file" /\ ~last.raised /\ LoadedFromFile
       /\ last.initial.kind \in {"set", "list"})
    => LET elems == Range(Items(Lookup(data, last.key)))
       IN ~\E x \in elems, y \in elems :
             IsInt(x) /\ ~IsInt(y) /\ CanInt(y) /\ TryInt(y) = x

\* two containers of one shape hold the same logical contents
SameContents(c, o) ==
    /\ c.kind = o.kind
    /\ CASE c.kind = "set" -> c.s = o.s
         [] c.kind = "list" -> c.l = o.l
         [] c.kind = "dict" -> Range(c.d) = Range(o.d)
         [] OTHER -> FALSE

\* C9: save_caches() followed by register_cache of the same path with load
\* true in a new registry yields a container with the contents the saved
\* container had.
C9_RoundTrip ==
    (/\ last.op = "register_cache"
     /\ last.path # ""
     /\ last.load
     /\ saved_from[last.path].from.kind = last.initial.kind
     /\ saved_from[last.path].by # session_id)
    => /\ ~last.raised
       /\ HasKey(data, last.key)
       /\ SameContents(Lookup(data, last.key), saved_from[last.path].from)

\* C11: after clean() returns, every disk-backed container entry of the
\* registry, whatever its shape and whether or not a file is bound to its
\* name, is empty and its directory is deleted.
C11_CleanEmptiesAll ==
    (last.op = "clean" /\ ~last.raised)
    => \A i \in 1..Len(data) :
          data[i].value.cache => (Size(data[i].value) = 0 /\ ~data[i].value.dir)

\* every name that holds a value before and after the step holds one of
\* the same kind
KindKept ==
    \A i \in 1..Len(data), j \in 1..Len(data') :
        data[i].key = data'[j].key => data'[j].value.kind = data[i].value.kind

\* C12: whatever registry operations are called, each registered name holds
\* a value of the kind it had when it was first registered.
C12_KindFixed == [][KindKept]_vars

\* C13: register, register_file and register_cache given a class instead of
\* a value raise, and leave the entries, the flags, the codec options and
\* the file bindings as they were.
C13_TypeRejected ==
    [][(last'.op \in {"register", "register_file", "register_cache"}
          /\ last'.initial.kind = "type")
       => (last'.raised /\ UNCHANGED registry_vars)]_vars

\* C14: once stop_daemon() has been called on a started daemon, the thread
\* eventually leaves its loop; stop_daemon() itself moves nothing of the
\* thread (it neither cuts the round in progress nor ends the sleep), and
\* the loop is left only at its test, with the flag down.
C14_StopCooperative ==
    /\ (~go /\ pc \in {"top", "iter", "sleep"}) ~> (pc = "stopped")
    /\ [][(go /\ ~go') => (pc' = pc /\ idx' = idx /\ calls' = calls)]_vars
    /\ [][(pc # "stopped" /\ pc' = "stopped") => (pc = "top" /\ ~go)]_vars

\* C14's case: stop_daemon() came during a round with three callbacks, the
\* rest of the round ran, the thread slept and then left the loop
C14_Witness ==
    /\ pc = "stopped"
    /\ Len(funcs) = 3
    /\ after_stop # <<>>
    /\ calls = funcs
    /\ sleep # SleepInterval

\* C15: a callback appended while the daemon runs leaves the iteration as
\* it was: the callbacks invoked in a round are at every moment the
\* beginning of the list, in order and each once; the append changes only
\* the end of the list; and a round ends only when the whole list, the
\* appended callbacks included, has been invoked.
C15_AppendKeepsIteration ==
    /\ [](pc \in {"iter", "sleep"}
            => /\ Len(calls) <= Len(funcs)
               /\ calls = SubSeq(funcs, 1, Len(calls)))
    /\ [][funcs' # funcs
            => /\ IsPrefix(funcs, funcs')
               /\ calls' = calls /\ idx' = idx /\ pc' = pc]_vars
    /\ [][(pc = "iter" /\ pc' = "sleep") => Len(calls) = Len(funcs)]_vars

\* C15's case: a callback was appended in the first round after the first
\* callback had been invoked; that round and the next have invoked the
\* three callbacks
C15_Witness ==
    /\ last.op = "append"
    /\ last.at = <<"iter", 2, 1>>
    /\ rounds = 2
    /\ pc = "sleep"
    /\ Len(funcs) = 3
    /\ calls = funcs

\* the entry at position i was handed to smart_save in the last call:
\* written, or logged because the write raised
IsAttempted(i) ==
    IsWritten(i) \/ \E j \in 1..Len(last.logged) : last.logged[j] = data[i].key

\* C16: save() writes each entry at most once per call and with the save
\* options registered for its name, and a save() that returns has handed to
\* smart_save every entry that is file-bound, not flagged no-save and not
\* empty; it writes no entry without a file, none flagged no-save and no
\* empty one; a name registered with save false is flagged, and a flag is
\* never taken back.
C16_SaveEligible ==
    /\ [](last.op = "save"
            => /\ \A j \in 1..Len(last.written) :
                     \E i \in 1..Len(data) :
                        /\ data[i].key = last.written[j][1]
                        /\ Bound(i)
                        /\ Size(data[i].value) > 0
                        /\ last.written[j][2] = KwGet(save_kwargs, data[i].key)
               /\ \A j \in 1..Len(last.written), k \in 1..Len(last.written) :
                     last.written[j][1] = last.written[k][1] => j = k
               /\ ~last.raised
                    => \A i \in 1..Len(data) :
                          (Bound(i) /\ Size(data[i].value) > 0) => IsAttempted(i))
    /\ []((last.op \in {"register_file", "register_cache"}
             /\ ~last.raised /\ ~last.save)
            => last.key \in do_not_save)
    /\ [][do_not_save \subseteq do_not_save']_vars

\* C16's case: of two file-bound entries that are not empty, one registered
\* with save false, save() wrote the other alone, with its options
C16_Witness ==
    /\ last.op = "save"
    /\ ~last.raised
    /\ last.written = <<<<NameA, "w">>>>
    /\ HasKey(data, NameB)
    /\ NameB \in do_not_save
    /\ fm_contains(filemanager, NameB)
    /\ Size(Lookup(data, NameB)) > 0

\* the names the last call passed to the file layer: to exists and
\* smart_load in a registration, to smart_save (which returned or raised) in
\* a save
FileLayerNames ==
    {last.fm_calls[j][2] : j \in 1..Len(last.fm_calls)}
    \cup {last.written[j][1] : j \in 1..Len(last.written)}
    \cup Range(last.logged)

\* C17 as stated: every name the registry passes to exists, smart_load and
\* smart_save is the name the caller gave, never a name with the session id
\* appended, for register_file and for register_cache with either value of
\* append_session_id.
C17_LogicalNameAlways ==
    /\ last.op \in {"register_file", "register_cache"}
          => \A n \in FileLayerNames : n = last.name
    /\ last.op \in {"save", "save_caches"}
          => \A n \in FileLayerNames : \A p \in suffixed : n # p[1] \o session_id

\* C17 as amended: every name the registry passes to exists, smart_load and
\* smart_save is the key under which it stores the entry: the name as given
\* for register_file and for register_cache without the session id, the
\* name with the session id appended for register_cache with it.
C17_StoredKey ==
    /\ last.op \in {"register_file", "register_cache"}
          => \A n \in FileLayerNames :
                n = IF last.append THEN last.name \o session_id ELSE last.name
    /\ last.op \in {"save", "save_caches"}
          => \A n \in FileLayerNames : HasKey(data, n)

\* C17's case: a container registered with the session id appended over a
\* file that was there, loaded from it and then written by save_caches()
C17_Witness ==
    /\ last.op = "save_caches"
    /\ last.written = <<<<NameA \o session_id, "">>>>
    /\ Size(Lookup(data, NameA \o session_id)) = 2
    /\ disk["p"] = ListV(<<S1, Sa>>)

\* this DataManager as it would be with the flags and options that it has
\* itself recorded, and no others
Alone == WithMeta(Self, own)

\* C18: what save(), save_caches(), get() and get_data_string() do for the
\* entries of a DataManager depends on the flags and options that this
\* DataManager recorded, never on those another DataManager of the process
\* recorded.
C18_MetadataPerInstance ==
    /\ save(Self, disk, locked).written = save(Alone, disk, locked).written
    /\ save_caches(Self, disk, locked).written = save_caches(Alone, disk, locked).written
    /\ get_data_string(Self) = get_data_string(Alone)
    /\ \A n \in SaveNames : get(Self, session_id, n) = get(Alone, session_id, n)

\* C20: save() and save_caches(), whether every write succeeds or an entry
\* fails, leave the entries (keys and values), the no-display, no-save
\* and unsuffixed lists, the save and load options and the session id as
\* they were.
C20_SaveOnlyReads ==
    [][last'.op \in {"save", "save_caches"} => UNCHANGED registry_vars]_vars

\* C20's case: a save() in which one write raised and was logged and
\* another entry was written
C20_Witness ==
    /\ last.op = "save"
    /\ Len(last.logged) = 1
    /\ Len(last.written) = 1

\* C19: a registration made while the daemon thread is inside save() or
\* save_caches() never ends the thread: the round in which the traversal
\* fails goes on to its sleep, and as long as stop_daemon() has not been
\* called every round is followed by another.
C19_RegistrationNeverHalts ==
    /\ [](pc \in {"idle", "top", "iter", "in", "sleep", "stopped"})
    /\ [](pc = "stopped" => ~go)
    /\ (pc = "in") ~> (pc = "sleep")
    /\ \A n \in 1..(MaxRounds - 1) :
          (rounds = n /\ pc \in {"top", "iter", "in", "sleep"}) ~> (rounds = n + 1 \/ ~go)

\* C19's case: in the first round a traversal was ended by the registry
\* changing size under it, and the second round has run to its sleep
C19_Witness ==
    /\ trav.cut = 1
    /\ rounds = 2
    /\ pc = "sleep"
    /\ calls = funcs
    /\ go

=============================================================================
